---- MODULE Spec2Model ----
(***************************************************************************)
(* Authentication and session lifecycle of nova-writers-conspiracy:        *)
(* backend/app/services/auth.py (AuthService), the endpoints of            *)
(* backend/app/api/v1/endpoints/auth.py and the User / UserSession rows of *)
(* backend/app/models/user.py.                                             *)
(*                                                                         *)
(* Time is counted in whole seconds, the resolution of the JWT exp claim;  *)
(* last_login alone keeps the instant within the second (utcnow).          *)
(* A handler is an operator from the tables, the clock and its inputs to   *)
(* the tables it leaves and the response it returns; its action applies it.*)
(* In Spec, SpecAccounts, SpecPasswords, SpecSessionWrites, SpecReaping,   *)
(* SpecInvalidateSession,                                                  *)
(* SpecProfile, SpecChangePassword and SpecLogin                           *)
(* every handler is one atomic step and the clock moves between handlers;  *)
(* SpecReaping adds the fairness of the clock and of the periodic cleanup. *)
(* In SpecRegisterRace, SpecInterleaved, SpecTouchRace, SpecReads and      *)
(* SpecRefresh a                                                           *)
(* handler is cut at its awaits: each database round trip is a step, other *)
(* calls and the clock move in between, and a call between two steps is    *)
(* kept in calls. SpecStartup starts before app.core.config is imported.   *)
(***************************************************************************)
EXTENDS Integers, Sequences, FiniteSets, TLC

(* ---------------------------------------------------------------- bounds *)
\* Last clock value the model explores.
MaxTime == 3
\* Largest number of rows of user_sessions the model explores.
MaxSessions == 2
\* Largest number of handler calls suspended at an await at one time.
MaxCalls == 2

(* --------------------------------------------------------- configuration *)
\* Settings.ACCESS_TOKEN_EXPIRE_MINUTES and Settings.REFRESH_TOKEN_EXPIRE_DAYS
\* are read from the environment; the model runs one configuration, in seconds,
\* with the access TTL shorter than the refresh TTL as in the defaults.
ACCESS_TOKEN_EXPIRE_MINUTES == 1
REFRESH_TOKEN_EXPIRE_DAYS == 2
\* The value the deployment gives SECRET_KEY in the environment.
ConfiguredKey == "secret"

(* ---------------------------------------------------------------- inputs *)
\* UserRegister.username is any string of 3..50 characters, so a username may
\* have the shape of an e-mail address.
Usernames == {"alice", "b@x.com"}
Emails == {"a@x.com", "b@x.com"}
\* What a caller may type as a password, and the passwords users register.
Passwords == {"Secretpw1", "Otherpw22"}
RegisterPasswords == {"Secretpw1"}
\* bcrypt draws a salt for every hash.
Salts == {"s1"}
\* UserRegister.password has min_length = 8 and no maximum: passwords of 73
\* characters that differ in the last one only, beside the short ones.
Pad8 == "Secretpw"
Pad72 == Pad8 \o Pad8 \o Pad8 \o Pad8 \o Pad8 \o Pad8 \o Pad8 \o Pad8 \o Pad8
LongPasswords == {Pad72 \o "1", Pad72 \o "2"}
PasswordInputs == Passwords \cup LongPasswords
SaltInputs == {"s1", "s2"}
\* What a caller may type as the login identifier.
Identifiers == Usernames \cup Emails
\* datetime.utcnow() reads microseconds: the instants of one clock second at
\* which a handler may run.
Microseconds == {0, 1}
\* A key other than SECRET_KEY, for tokens the server did not sign.
ForeignKey == "forged"

(* ------------------------------------------------------------------ null *)
NoUser == 0
NoSession == 0
NoTime == -1
NoSub == ""
NoToken == [sub |-> NoSub, exp |-> NoTime, type |-> "none", key |-> ""]
\* Python's None where a number could have been returned.
None == -1
\* The locals of a call before it has set any.
NoCall == [op            |-> "none",
           pc            |-> "none",
           username      |-> "",
           email         |-> "",
           password      |-> "",
           salt          |-> "",
           user_id       |-> NoUser,
           access_token  |-> NoToken,
           refresh_token |-> NoToken,
           expires_at    |-> NoTime,
           last_used     |-> NoTime,
           selected      |-> {}]

VARIABLES
    users,      \* table users: sequence of rows, id = position
    sessions,   \* table user_sessions: sequence of rows, id = position
    now,        \* datetime.utcnow(), in seconds
    calls,      \* handler calls suspended at an await: sequence of locals
    settings    \* app.core.config: the environment, how far the process has
                \* started, and the Settings instance once it is created

vars == <<users, sessions, now, calls, settings>>

\* settings.SECRET_KEY, the process-wide signing key.
SECRET_KEY == settings.SECRET_KEY

\* The process of a deployment whose environment sets SECRET_KEY, after
\* startup.
Started ==
    [environ |-> <<ConfiguredKey>>, phase |-> "serving",
     SECRET_KEY |-> ConfiguredKey, printed |-> FALSE]

(* ------------------------------------------------------ password hashing *)
\* pwd_context = CryptContext(schemes=["bcrypt"]): bcrypt keys its hash with
\* the first 72 bytes of the password and ignores the rest.
BCRYPT_BYTES == 72
bcrypt_key(password) ==
    IF Len(password) > BCRYPT_BYTES
    THEN SubSeq(password, 1, BCRYPT_BYTES)
    ELSE password

\* AuthService.get_password_hash: pwd_context.hash(password), salted bcrypt.
get_password_hash(password, salt) ==
    [plain |-> bcrypt_key(password), salt |-> salt]

\* AuthService.verify_password: pwd_context.verify(plain, hashed) re-hashes
\* the plain password with the salt stored in the hash and compares.
verify_password(plain_password, hashed_password) ==
    get_password_hash(plain_password, hashed_password.salt) = hashed_password

(* ---------------------------------------------------------------- tokens *)
\* jwt.encode(claims, key): the claims and a signature made with the key.
jwt_encode(claims, key) ==
    [sub |-> claims.sub, exp |-> claims.exp, type |-> claims.type, key |-> key]

\* AuthService.create_access_token(data, expires_delta) at clock value t.
create_access_token(sub, expires_delta, t) ==
    jwt_encode([sub |-> sub, exp |-> t + expires_delta, type |-> "access"], SECRET_KEY)

\* create_refresh_token with the type claim of create_access_token.
create_refresh_token_typed_access(sub, expires_delta, t) ==
    jwt_encode([sub |-> sub, exp |-> t + expires_delta, type |-> "access"], SECRET_KEY)

\* AuthService.create_refresh_token(data, expires_delta) at clock value t.
create_refresh_token(sub, expires_delta, t) ==
    jwt_encode([sub |-> sub, exp |-> t + expires_delta, type |-> "refresh"], SECRET_KEY)

\* jwt.decode(token, SECRET_KEY, algorithms) at clock value t raises JWTError
\* on a signature made with another key and when exp < now (python-jose
\* _validate_exp); no caller passes the type claim to it.
jwt_decode_ok(token, t) ==
    /\ token.key = SECRET_KEY
    /\ ~(token.exp < t)

(* ----------------------------------------------------------- user lookup *)
UserIds(us) == 1 .. Len(us)

\* AuthService.get_user_by_username: the id of the row, or NoUser.
get_user_by_username(us, username) ==
    IF \E i \in UserIds(us) : us[i].username = username
    THEN CHOOSE i \in UserIds(us) : us[i].username = username
    ELSE NoUser

\* AuthService.get_user_by_email: the id of the row, or NoUser.
get_user_by_email(us, email) ==
    IF \E i \in UserIds(us) : us[i].email = email
    THEN CHOOSE i \in UserIds(us) : us[i].email = email
    ELSE NoUser

\* authenticate_user that looks the identifier up as an e-mail address first.
authenticate_user_email_first(us, username, password) ==
    LET byEmail == get_user_by_email(us, username)
        user == IF byEmail = NoUser THEN get_user_by_username(us, username) ELSE byEmail
    IN  IF user = NoUser THEN NoUser
        ELSE IF ~verify_password(password, us[user].hashed_password) THEN NoUser
        ELSE user

\* AuthService.authenticate_user: username first, then e-mail, then password.
authenticate_user(us, username, password) ==
    LET byName == get_user_by_username(us, username)
        user == IF byName = NoUser THEN get_user_by_email(us, username) ELSE byName
    IN  IF user = NoUser THEN NoUser
        ELSE IF ~verify_password(password, us[user].hashed_password) THEN NoUser
        ELSE user

\* The users table without its unique constraints.
user_insert_unconstrained(us, username, email) == TRUE

\* User.username and User.email are unique=True and User.id is the primary
\* key: the INSERT of a row repeating a username, an email or the id its
\* sequence hands out raises IntegrityError at commit.
user_insert_ok(us, username, email) ==
    \A i \in UserIds(us) :
        /\ us[i].username # username
        /\ us[i].email # email
        /\ us[i].id # Len(us) + 1

\* AuthService.create_user: the table with the row it adds. The id column
\* takes the next value of its sequence; the register schema leaves
\* first_name to the caller and the model registers without one.
create_user(us, username, email, password, salt) ==
    Append(us, [id              |-> Len(us) + 1,
                username        |-> username,
                email           |-> email,
                hashed_password |-> get_password_hash(password, salt),
                first_name      |-> "",
                last_login      |-> NoTime])

\* AuthService.get_user_by_id: the row whose id column is user_id, or NoUser.
get_user_by_id(us, user_id) ==
    IF \E i \in UserIds(us) : us[i].id = user_id
    THEN CHOOSE i \in UserIds(us) : us[i].id = user_id
    ELSE NoUser

\* The primary key and the unique constraints on an UPDATE of row i to row:
\* no other row holds its id, its username or its email.
user_update_ok(us, i, row) ==
    \A j \in UserIds(us) \ {i} :
        /\ us[j].id # row.id
        /\ us[j].username # row.username
        /\ us[j].email # row.email

\* AuthService.update_user_profile: setattr for every field of profile_data
\* that the User object has and whose value is not None (<<>>; a value v is
\* <<v>>), then commit; an IntegrityError at the commit leaves the table as
\* it was.
update_user_profile(us, user_id, profile_data) ==
    LET user == get_user_by_id(us, user_id)
    IN  IF user = NoUser THEN us
        ELSE LET row == [field \in DOMAIN us[user] |->
                            IF field \in DOMAIN profile_data
                               /\ profile_data[field] # <<>>
                            THEN profile_data[field][1]
                            ELSE us[user][field]]
             IN  IF user_update_ok(us, user, row)
                 THEN [us EXCEPT ![user] = row]
                 ELSE us

\* AuthService.update_user_preferences: writing_preferences is a plain JSON
\* column and the dict is updated in place, which the unit of work does not
\* see; the commit writes nothing and no other column is assigned.
update_user_preferences(us, user_id, preferences) == us

(* ------------------------------------------------------- session registry *)
SessionIds(ss) == 1 .. Len(ss)

\* UserSession.session_token and UserSession.refresh_token are unique=True: the
\* INSERT of a row repeating either value raises IntegrityError at commit.
session_insert_ok(ss, access_token, refresh_token) ==
    \A i \in SessionIds(ss) :
        /\ ss[i].session_token # access_token
        /\ ss[i].refresh_token # refresh_token

\* A row of user_sessions inserted at clock value t: is_active, created_at and
\* last_used take the column defaults, which read the clock at the INSERT.
UserSession(user_id, session_token, refresh_token, expires_at, t) ==
    [user_id       |-> user_id,
     session_token |-> session_token,
     refresh_token |-> refresh_token,
     is_active     |-> TRUE,
     created_at    |-> t,
     expires_at    |-> expires_at,
     last_used     |-> t]

\* UserSession.is_expired of row i at clock value t.
is_expired(ss, i, t) == t > ss[i].expires_at

\* create_user_session that keeps one row per user: a user who has a row
\* gets it back with the new tokens and a new expiry.
create_user_session_reusing(ss, user_id, access_token, refresh_token, t) ==
    IF \E i \in SessionIds(ss) : ss[i].user_id = user_id
    THEN LET i == CHOOSE i \in SessionIds(ss) : ss[i].user_id = user_id
         IN  [ss EXCEPT ![i] = UserSession(user_id, access_token, refresh_token,
                                           t + REFRESH_TOKEN_EXPIRE_DAYS, t)]
    ELSE Append(ss, UserSession(user_id, access_token, refresh_token,
                                t + REFRESH_TOKEN_EXPIRE_DAYS, t))

\* AuthService.create_user_session run in one piece at clock value t: the
\* table with the row it adds.
create_user_session(ss, user_id, access_token, refresh_token, t) ==
    Append(ss, UserSession(user_id, access_token, refresh_token,
                           t + REFRESH_TOKEN_EXPIRE_DAYS, t))

\* AuthService.get_user_session: the id of the row selected by
\* session_token == token and is_active, or NoSession.
get_user_session(ss, session_token) ==
    IF \E i \in SessionIds(ss) : ss[i].session_token = session_token /\ ss[i].is_active
    THEN CHOOSE i \in SessionIds(ss) :
             ss[i].session_token = session_token /\ ss[i].is_active
    ELSE NoSession

\* A lookup that expires on read: the row it finds past its expires_at is
\* flagged inactive by the lookup.
get_user_session_expiring(ss, session_token, t) ==
    LET session == get_user_session(ss, session_token)
    IN  IF session # NoSession /\ t > ss[session].expires_at
        THEN [ss EXCEPT ![session].is_active = FALSE]
        ELSE ss

\* AuthService.get_user_session at clock value t: what it leaves in the
\* table. It executes one SELECT and assigns nothing.
get_user_session_leaves(ss, session_token, t) == ss

\* invalidate_user_sessions that stops after the first active row of the user.
invalidate_user_sessions_first_only(ss, user_id) ==
    LET active == {i \in SessionIds(ss) : ss[i].user_id = user_id /\ ss[i].is_active}
    IN  [i \in SessionIds(ss) |->
            IF i \in active /\ \A j \in active : i <= j
            THEN [ss[i] EXCEPT !.is_active = FALSE]
            ELSE ss[i]]

\* invalidate_user_sessions without the user_id filter: every active row.
invalidate_user_sessions_everyone(ss, user_id) ==
    [i \in SessionIds(ss) |->
        IF ss[i].is_active
        THEN [ss[i] EXCEPT !.is_active = FALSE]
        ELSE ss[i]]

\* AuthService.invalidate_user_sessions: every active row of the user.
invalidate_user_sessions(ss, user_id) ==
    [i \in SessionIds(ss) |->
        IF ss[i].user_id = user_id /\ ss[i].is_active
        THEN [ss[i] EXCEPT !.is_active = FALSE]
        ELSE ss[i]]

\* AuthService.invalidate_user_sessions: what it returns. The function is
\* declared -> None and has no return statement.
invalidate_user_sessions_returns(ss, user_id) == None

\* invalidate_session that looks the row up without the is_active filter and
\* flips the flag instead of clearing it.
invalidate_session_toggle(ss, session_token) ==
    [i \in SessionIds(ss) |->
        IF ss[i].session_token = session_token
        THEN [ss[i] EXCEPT !.is_active = ~ss[i].is_active]
        ELSE ss[i]]

\* invalidate_session that ends every session of the owner of the row found.
invalidate_session_of_owner(ss, session_token) ==
    LET session == get_user_session(ss, session_token)
    IN  IF session # NoSession
        THEN [i \in SessionIds(ss) |->
                 IF ss[i].user_id = ss[session].user_id
                 THEN [ss[i] EXCEPT !.is_active = FALSE]
                 ELSE ss[i]]
        ELSE ss

\* AuthService.invalidate_session: the row get_user_session finds, if any.
invalidate_session(ss, session_token) ==
    LET session == get_user_session(ss, session_token)
    IN  IF session # NoSession
        THEN [ss EXCEPT ![session].is_active = FALSE]
        ELSE ss

\* AuthService.invalidate_session: what it returns, True when
\* get_user_session found a row.
invalidate_session_returns(ss, session_token) ==
    get_user_session(ss, session_token) # NoSession

\* update_session_activity with a sliding expiry: the touch also moves
\* expires_at to a full refresh lifetime after t.
update_session_activity_sliding(ss, session_token, t) ==
    LET session == get_user_session(ss, session_token)
    IN  IF session # NoSession
        THEN [ss EXCEPT ![session].last_used = t,
                        ![session].expires_at = t + REFRESH_TOKEN_EXPIRE_DAYS]
        ELSE ss

\* AuthService.update_session_activity at clock value t.
update_session_activity(ss, session_token, t) ==
    LET session == get_user_session(ss, session_token)
    IN  IF session # NoSession
        THEN [ss EXCEPT ![session].last_used = t]
        ELSE ss

\* db.commit() after session.last_used = ... on the selected row, written
\* with the flag the call read (true: get_user_session returns active rows).
commit_last_used_whole_row(ss, selected, last_used) ==
    [i \in SessionIds(ss) |->
        IF i \in selected
        THEN [ss[i] EXCEPT !.last_used = last_used, !.is_active = TRUE]
        ELSE ss[i]]

\* db.commit() after session.last_used = ... on the selected row: the unit of
\* work writes the changed attribute only,
\* UPDATE user_sessions SET last_used = :last_used WHERE id = :id.
commit_last_used(ss, selected, last_used) ==
    [i \in SessionIds(ss) |->
        IF i \in selected THEN [ss[i] EXCEPT !.last_used = last_used] ELSE ss[i]]

\* expired_sessions without the is_active filter.
expired_sessions_any_flag(ss, t) ==
    {i \in SessionIds(ss) : ss[i].expires_at < t}

\* expired_sessions that also takes the rows expiring at t.
expired_sessions_inclusive(ss, t) ==
    {i \in SessionIds(ss) : ss[i].expires_at <= t /\ ss[i].is_active}

\* The rows AuthService.cleanup_expired_sessions selects at clock value t.
expired_sessions(ss, t) ==
    {i \in SessionIds(ss) : ss[i].expires_at < t /\ ss[i].is_active}

\* cleanup_expired_sessions that deletes the rows it selects.
cleanup_expired_sessions_deleting(ss, t) ==
    SelectSeq(ss, LAMBDA session : ~(session.expires_at < t /\ session.is_active))

\* AuthService.cleanup_expired_sessions at clock value t: the table after it.
cleanup_expired_sessions(ss, t) ==
    [i \in SessionIds(ss) |->
        IF i \in expired_sessions(ss, t)
        THEN [ss[i] EXCEPT !.is_active = FALSE]
        ELSE ss[i]]

\* AuthService.cleanup_expired_sessions at clock value t: the count it
\* returns, one for every row it selected.
cleanup_expired_sessions_count(ss, t) == Cardinality(expired_sessions(ss, t))

\* The rows AuthService.invalidate_user_sessions selects.
active_sessions_of(ss, user_id) ==
    {i \in SessionIds(ss) : ss[i].user_id = user_id /\ ss[i].is_active}

\* db.commit() after session.is_active = False on the selected rows: one
\* UPDATE user_sessions SET is_active = false WHERE id = :id per row.
commit_inactive(ss, selected) ==
    [i \in SessionIds(ss) |->
        IF i \in selected THEN [ss[i] EXCEPT !.is_active = FALSE] ELSE ss[i]]

(* -------------------------------------------------------------- responses *)
\* What an operation hands back; the fields an operation does not set keep
\* these values.
Response(op) ==
    [op            |-> op,
     status        |-> 200,
     detail        |-> "",
     token         |-> NoToken,     \* the token the caller presented
     access_token  |-> NoToken,
     refresh_token |-> NoToken,
     user          |-> NoUser,      \* id of the user returned or resolved
     session       |-> NoSession,   \* id of the session returned
     count         |-> 0]

\* main.global_exception_handler: what an unhandled exception becomes.
InternalError(op) ==
    [Response(op) EXCEPT !.status = 500,
                         !.detail = "The conspiracy encountered an unexpected twist"]

(* --------------------------------------------------------------- handlers *)
\* endpoints/auth.py get_current_user at clock value t: the id of the user the
\* bearer token resolves to, or NoUser when it raises credentials_exception.
get_current_user(us, token, t) ==
    IF ~jwt_decode_ok(token, t) THEN NoUser
    ELSE IF token.sub = NoSub THEN NoUser
    ELSE get_user_by_username(us, token.sub)

\* register without the username lookup, on a table without constraints.
register_username_unchecked(us, username, email, password, salt) ==
    IF get_user_by_email(us, email) # NoUser
    THEN [users |-> us,
          resp  |-> [Response("register") EXCEPT !.status = 400,
                                                 !.detail = "Email already registered"]]
    ELSE [users |-> create_user(us, username, email, password, salt),
          resp  |-> [Response("register") EXCEPT !.user = Len(us) + 1]]

\* endpoints/auth.py register: the users table after it and the response.
register(us, username, email, password, salt) ==
    IF get_user_by_email(us, email) # NoUser
    THEN [users |-> us,
          resp  |-> [Response("register") EXCEPT !.status = 400,
                                                 !.detail = "Email already registered"]]
    ELSE IF get_user_by_username(us, username) # NoUser
    THEN [users |-> us,
          resp  |-> [Response("register") EXCEPT !.status = 400,
                                                 !.detail = "Username already taken"]]
    ELSE IF ~user_insert_ok(us, username, email)
    THEN \* IntegrityError in create_user: the id is held by another row
         [users |-> us, resp |-> InternalError("register")]
    ELSE [users |-> create_user(us, username, email, password, salt),
          resp  |-> [Response("register") EXCEPT !.user = Len(us) + 1]]

\* datetime.utcnow() at instant usec of clock second t, as the DateTime column
\* last_login keeps it; the exp claim of a token keeps the second only.
utcnow(t, usec) == t * Cardinality(Microseconds) + usec

\* login that tells an unknown identifier from a wrong password.
login_leaky(us, ss, t, username, password) ==
    LET user == authenticate_user(us, username, password)
        found == get_user_by_username(us, username) # NoUser
                 \/ get_user_by_email(us, username) # NoUser
    IN  IF user = NoUser
        THEN [users |-> us, sessions |-> ss,
              resp  |-> [Response("login") EXCEPT
                            !.status = 401,
                            !.detail = IF found THEN "Incorrect password"
                                                ELSE "User not found"]]
        ELSE
        LET us1 == [us EXCEPT ![user].last_login = utcnow(t, 0)]
            access_token  == create_access_token(us1[user].username,
                                                 ACCESS_TOKEN_EXPIRE_MINUTES, t)
            refresh_token == create_refresh_token(us1[user].username,
                                                  REFRESH_TOKEN_EXPIRE_DAYS, t)
        IN  IF ~session_insert_ok(ss, access_token, refresh_token)
            THEN [users |-> us1, sessions |-> ss,
                  resp  |-> [InternalError("login") EXCEPT !.user = user]]
            ELSE [users    |-> us1,
                  sessions |-> create_user_session(ss, user, access_token,
                                                   refresh_token, t),
                  resp     |-> [Response("login") EXCEPT
                                   !.access_token = access_token,
                                   !.refresh_token = refresh_token,
                                   !.user = user]]

\* endpoints/auth.py login at instant usec of clock second t: the tables after
\* it and the response.
login_at(us, ss, t, usec, username, password) ==
    LET user == authenticate_user(us, username, password)
    IN  IF user = NoUser
        THEN [users |-> us, sessions |-> ss,
              resp  |-> [Response("login") EXCEPT
                            !.status = 401,
                            !.detail = "Incorrect username or password"]]
        ELSE
        LET us1 == [us EXCEPT ![user].last_login = utcnow(t, usec)]  \* line 106
            access_token  == create_access_token(us1[user].username,
                                                 ACCESS_TOKEN_EXPIRE_MINUTES, t)
            refresh_token == create_refresh_token(us1[user].username,
                                                  REFRESH_TOKEN_EXPIRE_DAYS, t)
        IN  IF ~session_insert_ok(ss, access_token, refresh_token)
            THEN \* IntegrityError in create_user_session: get_db rolls the
                 \* insert back, the handler returns nothing
                 [users |-> us1, sessions |-> ss,
                  resp  |-> [InternalError("login") EXCEPT !.user = user]]
            ELSE [users    |-> us1,
                  sessions |-> create_user_session(ss, user, access_token,
                                                   refresh_token, t),
                  resp     |-> [Response("login") EXCEPT
                                   !.access_token = access_token,
                                   !.refresh_token = refresh_token,
                                   !.user = user]]

\* login at the first instant of clock second t.
login(us, ss, t, username, password) ==
    login_at(us, ss, t, 0, username, password)

\* refresh_token that hands out a new refresh token with the access token.
refresh_rotating(us, token, t) ==
    IF ~jwt_decode_ok(token, t) \/ token.sub = NoSub
    THEN [Response("refresh") EXCEPT !.status = 401,
                                     !.detail = "Invalid refresh token",
                                     !.token = token]
    ELSE
    LET user == get_user_by_username(us, token.sub)
    IN  IF user = NoUser
        THEN [Response("refresh") EXCEPT !.status = 401,
                                         !.detail = "User not found",
                                         !.token = token]
        ELSE [Response("refresh") EXCEPT
                 !.token = token,
                 !.access_token = create_access_token(us[user].username,
                                                      ACCESS_TOKEN_EXPIRE_MINUTES, t),
                 !.refresh_token = create_refresh_token(us[user].username,
                                                        REFRESH_TOKEN_EXPIRE_DAYS, t),
                 !.user = user]

\* refresh that asks the registry: the token must be the refresh token of an
\* active session.
refresh_checking_registry(us, token, t) ==
    IF \/ ~jwt_decode_ok(token, t)
       \/ token.sub = NoSub
       \/ ~\E i \in SessionIds(sessions) :
              sessions[i].refresh_token = token /\ sessions[i].is_active
    THEN [Response("refresh") EXCEPT !.status = 401,
                                     !.detail = "Invalid refresh token",
                                     !.token = token]
    ELSE
    LET user == get_user_by_username(us, token.sub)
    IN  IF user = NoUser
        THEN [Response("refresh") EXCEPT !.status = 401,
                                         !.detail = "User not found",
                                         !.token = token]
        ELSE [Response("refresh") EXCEPT
                 !.token = token,
                 !.access_token = create_access_token(us[user].username,
                                                      ACCESS_TOKEN_EXPIRE_MINUTES, t),
                 !.refresh_token = token,
                 !.user = user]

\* endpoints/auth.py refresh_token at clock value t: the response; it reads
\* the users table and writes nothing.
refresh(us, token, t) ==
    IF ~jwt_decode_ok(token, t) \/ token.sub = NoSub
    THEN [Response("refresh") EXCEPT !.status = 401,
                                     !.detail = "Invalid refresh token",
                                     !.token = token]
    ELSE
    LET user == get_user_by_username(us, token.sub)
    IN  IF user = NoUser
        THEN [Response("refresh") EXCEPT !.status = 401,
                                         !.detail = "User not found",
                                         !.token = token]
        ELSE
        LET access_token == create_access_token(us[user].username,
                                                ACCESS_TOKEN_EXPIRE_MINUTES, t)
        IN  [Response("refresh") EXCEPT !.token = token,
                                        !.access_token = access_token,
                                        !.refresh_token = token,
                                        !.user = user]

\* logout that invalidates only the session of the presented token.
logout_presented_session_only(us, ss, token, t) ==
    LET current_user == get_current_user(us, token, t)
    IN  IF current_user = NoUser
        THEN [sessions |-> ss,
              resp     |-> [Response("logout") EXCEPT
                               !.status = 401,
                               !.detail = "Could not validate credentials",
                               !.token = token]]
        ELSE [sessions |-> invalidate_session(ss, token),
              resp     |-> [Response("logout") EXCEPT
                               !.detail = "Successfully logged out",
                               !.token = token,
                               !.user = current_user]]

\* endpoints/auth.py logout at clock value t: the sessions table after it and
\* the response.
logout(us, ss, token, t) ==
    LET current_user == get_current_user(us, token, t)
    IN  IF current_user = NoUser
        THEN [sessions |-> ss,
              resp     |-> [Response("logout") EXCEPT
                               !.status = 401,
                               !.detail = "Could not validate credentials",
                               !.token = token]]
        ELSE [sessions |-> invalidate_user_sessions(ss, current_user),
              resp     |-> [Response("logout") EXCEPT
                               !.detail = "Successfully logged out",
                               !.token = token,
                               !.user = current_user]]

\* endpoints/auth.py get_current_user_info (GET /me) at clock value t.
whoAmI(us, token, t) ==
    LET current_user == get_current_user(us, token, t)
    IN  IF current_user = NoUser
        THEN [Response("whoAmI") EXCEPT !.status = 401,
                                        !.detail = "Could not validate credentials",
                                        !.token = token]
        ELSE [Response("whoAmI") EXCEPT !.token = token, !.user = current_user]

(* ---------------------------------------------------------- state machine *)
\* A token signed with a key that is not the server's.
ForgedTokens ==
    {jwt_encode([sub |-> "alice", exp |-> MaxTime + 1, type |-> "access"], ForeignKey)}

\* The tokens held by the session rows.
SessionTokens(ss) ==
    {ss[i].session_token : i \in SessionIds(ss)} \cup
    {ss[i].refresh_token : i \in SessionIds(ss)}

\* The access tokens a caller can obtain at clock value t by presenting a
\* token of a session row to refresh.
RefreshedTokens(us, ss, t) ==
    {refresh(us, token, t).access_token : token \in SessionTokens(ss)} \ {NoToken}

\* Tokens a caller presents: the pair a login returned (both are kept in the
\* session row), an access token refresh hands out now, or a forged one.
Presentable ==
    SessionTokens(sessions) \cup RefreshedTokens(users, sessions, now) \cup ForgedTokens

\* The state after construction: empty tables (lifespan runs create_all).
Init ==
    /\ users = <<>>
    /\ sessions = <<>>
    /\ now = 0
    /\ calls = <<>>
    /\ settings = Started

\* The wall clock advances between two operations.
Tick ==
    /\ now < MaxTime
    /\ now' = now + 1
    /\ UNCHANGED <<users, sessions, calls, settings>>

\* POST /auth/register
RegisterStep(username, email, password, salt) ==
    /\ users' = register(users, username, email, password, salt).users
    /\ UNCHANGED <<sessions, now, calls, settings>>

Register ==
    \E username \in Usernames, email \in Emails,
       password \in RegisterPasswords, salt \in Salts :
        RegisterStep(username, email, password, salt)

\* POST /auth/login
LoginStep(username, password) ==
    LET r == login(users, sessions, now, username, password)
    IN  /\ Len(r.sessions) <= MaxSessions
        /\ users' = r.users
        /\ sessions' = r.sessions
        /\ UNCHANGED <<now, calls, settings>>

Login ==
    \E username \in Identifiers, password \in Passwords : LoginStep(username, password)

\* POST /auth/refresh: it answers and writes nothing
Refresh ==
    \E token \in Presentable :
        /\ refresh(users, token, now).op = "refresh"
        /\ UNCHANGED <<users, sessions, now, calls, settings>>

\* POST /auth/logout
LogoutStep(token) ==
    /\ sessions' = logout(users, sessions, token, now).sessions
    /\ UNCHANGED <<users, now, calls, settings>>

Logout == \E token \in Presentable : LogoutStep(token)

\* GET /auth/me: it answers and writes nothing
WhoAmI ==
    \E token \in Presentable :
        /\ whoAmI(users, token, now).op = "whoAmI"
        /\ UNCHANGED <<users, sessions, now, calls, settings>>

\* AuthService.get_user_session called with a token: a read
GetUserSession ==
    \E token \in Presentable :
        /\ get_user_session(sessions, token) \in {NoSession} \cup SessionIds(sessions)
        /\ UNCHANGED <<users, sessions, now, calls, settings>>

\* AuthService.invalidate_user_sessions called with a user id
InvalidateUserSessions ==
    \E user_id \in UserIds(users) :
        /\ sessions' = invalidate_user_sessions(sessions, user_id)
        /\ UNCHANGED <<users, now, calls, settings>>

\* AuthService.invalidate_session called with a token
InvalidateSession ==
    \E token \in Presentable :
        /\ sessions' = invalidate_session(sessions, token)
        /\ UNCHANGED <<users, now, calls, settings>>

\* AuthService.update_session_activity called with a token
UpdateSessionActivity ==
    \E token \in Presentable :
        /\ sessions' = update_session_activity(sessions, token, now)
        /\ UNCHANGED <<users, now, calls, settings>>

\* AuthService.cleanup_expired_sessions, run by the periodic maintenance task
CleanupExpiredSessions ==
    /\ sessions' = cleanup_expired_sessions(sessions, now)
    /\ UNCHANGED <<users, now, calls, settings>>

Next ==
    \/ Tick
    \/ Register
    \/ Login
    \/ Refresh
    \/ Logout
    \/ WhoAmI
    \/ GetUserSession
    \/ InvalidateUserSessions
    \/ InvalidateSession
    \/ UpdateSessionActivity
    \/ CleanupExpiredSessions

Spec == Init /\ [][Next]_vars

(* ------------------------------------------- accounts with own passwords *)
\* POST /auth/register with any password a caller may type
RegisterAccount ==
    \E username \in Usernames, email \in Emails,
       password \in Passwords, salt \in Salts :
        RegisterStep(username, email, password, salt)

\* What a deployment runs: the endpoints of the router and the periodic
\* cleanup, over accounts with passwords of their own. The AuthService calls
\* no endpoint makes are steps of Spec only.
NextAccounts ==
    \/ Tick
    \/ RegisterAccount
    \/ Login
    \/ Refresh
    \/ Logout
    \/ WhoAmI
    \/ CleanupExpiredSessions

SpecAccounts == Init /\ [][NextAccounts]_vars

(* ------------------------------------------------ writers of user_sessions *)
\* Every operation that reaches user_sessions by a token or by the clock,
\* each run undivided.
NextSessionWrites ==
    \/ Tick
    \/ Register
    \/ Login
    \/ Refresh
    \/ Logout
    \/ InvalidateSession
    \/ UpdateSessionActivity
    \/ CleanupExpiredSessions

SpecSessionWrites == Init /\ [][NextSessionWrites]_vars

\* Logins and invalidate_session alone write user_sessions.
NextInvalidateSession ==
    \/ Tick
    \/ Register
    \/ Login
    \/ InvalidateSession

SpecInvalidateSession == Init /\ [][NextInvalidateSession]_vars

(* ------------------------------------------------------ periodic cleanup *)
\* The operations that write user_sessions, with the clock that keeps
\* advancing and celery beat that keeps scheduling the cleanup task: a tick
\* and a cleanup with rows to flip are not put off forever.
NextReaping ==
    \/ Tick
    \/ Register
    \/ Login
    \/ Logout
    \/ UpdateSessionActivity
    \/ CleanupExpiredSessions

SpecReaping ==
    /\ Init
    /\ [][NextReaping]_vars
    /\ WF_vars(Tick)
    /\ WF_vars(CleanupExpiredSessions)

(* -------------------------------------------------- passwords of any size *)
\* POST /auth/register with a password of any length the schema admits
RegisterPassword ==
    \E username \in Usernames, email \in Emails,
       password \in PasswordInputs, salt \in SaltInputs :
        RegisterStep(username, email, password, salt)

\* POST /auth/login with a password of any length
LoginPassword ==
    \E username \in Identifiers, password \in PasswordInputs :
        LoginStep(username, password)

NextPasswords ==
    \/ Tick
    \/ RegisterPassword
    \/ LoginPassword

SpecPasswords == Init /\ [][NextPasswords]_vars

(* ---------------------------------------------------------- user profile *)
\* The user ids a caller may name, and the ids a field map may carry.
UserIdInputs == {1, 2, 3}

\* The field maps a caller hands to update_user_profile: one field each, a
\* column of the row, a name User does not have, or a value of None.
ProfileData ==
    {("id" :> <<id>>) : id \in UserIdInputs}
    \cup {("username" :> <<username>>) : username \in Usernames}
    \cup {("email" :> <<email>>) : email \in Emails}
    \cup {("hashed_password" :> <<get_password_hash(password, salt)>>) :
              password \in Passwords, salt \in Salts}
    \cup {("first_name" :> <<"Ada">>), ("first_name" :> <<>>),
          ("nickname" :> <<"ada">>)}

UpdateUserProfileStep(user_id, profile_data) ==
    /\ users' = update_user_profile(users, user_id, profile_data)
    /\ UNCHANGED <<sessions, now, calls, settings>>

\* AuthService.update_user_profile called with a user id and a field map
UpdateUserProfile ==
    \E user_id \in UserIdInputs, profile_data \in ProfileData :
        UpdateUserProfileStep(user_id, profile_data)

\* AuthService.update_user_preferences called with a user id
UpdateUserPreferences ==
    \E user_id \in UserIdInputs :
        /\ users' = update_user_preferences(users, user_id, "concise")
        /\ UNCHANGED <<sessions, now, calls, settings>>

NextProfile ==
    \/ RegisterAccount
    \/ UpdateUserProfile
    \/ UpdateUserPreferences

SpecProfile == Init /\ [][NextProfile]_vars

(* ------------------------------------------------------ password change *)
\* AuthService.change_user_password: False when no row has the id or the
\* current password does not verify; else the new hash is stored and
\* committed. It issues no statement on user_sessions.
change_user_password(us, ss, user_id, current_password, new_password, salt) ==
    LET user == get_user_by_id(us, user_id)
    IN  IF user = NoUser
        THEN [users |-> us, sessions |-> ss, returns |-> FALSE]
        ELSE IF ~verify_password(current_password, us[user].hashed_password)
        THEN [users |-> us, sessions |-> ss, returns |-> FALSE]
        ELSE [users    |-> [us EXCEPT ![user].hashed_password =
                                         get_password_hash(new_password, salt)],
              sessions |-> ss,
              returns  |-> TRUE]

\* AuthService.change_user_password called with a user id and two passwords
\* of any length PasswordChange admits
ChangeUserPassword ==
    \E user_id \in UserIdInputs, current_password \in PasswordInputs,
       new_password \in PasswordInputs, salt \in SaltInputs :
        LET r == change_user_password(users, sessions, user_id,
                                      current_password, new_password, salt)
        IN  /\ users' = r.users
            /\ sessions' = r.sessions
            /\ UNCHANGED <<now, calls, settings>>

NextChangePassword ==
    \/ Tick
    \/ RegisterPassword
    \/ LoginPassword
    \/ ChangeUserPassword

SpecChangePassword == Init /\ [][NextChangePassword]_vars

(* ----------------------------------------------- logins within one second *)
\* POST /login at any instant of the current clock second; the clock never
\* runs backwards, so no stored last_login is later than this instant.
LoginAt ==
    \E username \in Identifiers, password \in Passwords, usec \in Microseconds :
        LET r == login_at(users, sessions, now, usec, username, password)
        IN  /\ \A i \in UserIds(users) : users[i].last_login <= utcnow(now, usec)
            /\ Len(r.sessions) <= MaxSessions
            /\ users' = r.users
            /\ sessions' = r.sessions
            /\ UNCHANGED <<now, calls, settings>>

NextLogin == Tick \/ RegisterAccount \/ LoginAt
SpecLogin == Init /\ [][NextLogin]_vars

(* ---------------------------------------------------------------- startup *)
\* What the environment (or .env) holds for SECRET_KEY when the process is
\* launched: nothing, the empty string, or the deployment's key. <<>> is a
\* variable that is not set.
Environments == {<<>>, <<"">>, <<ConfiguredKey>>}

\* The process before app.core.config has been imported.
Launched(environ) ==
    [environ |-> environ, phase |-> "importing", SECRET_KEY |-> "",
     printed |-> FALSE]

\* The process is launched in any of the environments, on empty tables.
InitStartup ==
    /\ users = <<>>
    /\ sessions = <<>>
    /\ now = 0
    /\ calls = <<>>
    /\ settings \in {Launched(environ) : environ \in Environments}

\* settings = Settings(): SECRET_KEY: str has no default, so an environment
\* without it raises a ValidationError out of the import and the process
\* ends; any string, the empty one included, is accepted.
LoadSettings ==
    /\ settings.phase = "importing"
    /\ settings' = IF settings.environ = <<>>
                   THEN [settings EXCEPT !.phase = "failed"]
                   ELSE [settings EXCEPT !.phase = "loaded",
                                         !.SECRET_KEY = settings.environ[1]]
    /\ UNCHANGED <<users, sessions, now, calls>>

\* validate_settings(): raises ValueError when a required setting is falsy.
validate_settings(s) == IF s.SECRET_KEY = "" THEN "ValueError" ELSE "ok"

\* The validation on import: the ValueError of validate_settings is caught
\* and printed (the only trace it leaves), and the import completes either way.
ValidateSettings ==
    /\ settings.phase = "loaded"
    /\ settings' = [settings EXCEPT
                       !.phase = "validated",
                       !.printed = validate_settings(settings) = "ValueError"]
    /\ UNCHANGED <<users, sessions, now, calls>>

\* lifespan: the tables are created and the application accepts requests.
Lifespan ==
    /\ settings.phase = "validated"
    /\ settings' = [settings EXCEPT !.phase = "serving"]
    /\ UNCHANGED <<users, sessions, now, calls>>

\* A request reaches a handler only once the application serves.
Serving == settings.phase = "serving"

ServeRegister == Serving /\ Register
ServeLogin == Serving /\ Login
ServeRefresh == Serving /\ Refresh
ServeLogout == Serving /\ Logout
ServeWhoAmI == Serving /\ WhoAmI

NextStartup ==
    \/ LoadSettings
    \/ ValidateSettings
    \/ Lifespan
    \/ Tick
    \/ ServeRegister
    \/ ServeLogin
    \/ ServeRefresh
    \/ ServeLogout
    \/ ServeWhoAmI

SpecStartup == InitStartup /\ [][NextStartup]_vars

(* --------------------------------------------- handlers cut at their awaits *)
\* The calls in flight, by position in calls.
Slots == 1 .. Len(calls)

\* calls with one more call in flight, holding the locals given.
Suspended(call) == Append(calls, call)

\* calls once the call at position c has returned or raised.
Returned(c) ==
    [i \in 1 .. (Len(calls) - 1) |-> IF i < c THEN calls[i] ELSE calls[i + 1]]

\* register up to the answer of get_user_by_email: 400 when the address is
\* held, else the call goes on to the username lookup.
RegisterCheckEmail ==
    \E username \in Usernames, email \in Emails,
       password \in RegisterPasswords, salt \in Salts :
        /\ Len(calls) < MaxCalls
        /\ calls' = IF get_user_by_email(users, email) # NoUser
                    THEN calls
                    ELSE Suspended([NoCall EXCEPT !.op = "register",
                                                  !.pc = "email_checked",
                                                  !.username = username,
                                                  !.email = email,
                                                  !.password = password,
                                                  !.salt = salt])
        /\ UNCHANGED <<users, sessions, now, settings>>

\* register up to the answer of get_user_by_username: 400 when the name is
\* held, else the call goes on to create_user.
RegisterCheckUsername ==
    \E c \in Slots :
        /\ calls[c].op = "register"
        /\ calls[c].pc = "email_checked"
        /\ calls' = IF get_user_by_username(users, calls[c].username) # NoUser
                    THEN Returned(c)
                    ELSE [calls EXCEPT ![c].pc = "username_checked"]
        /\ UNCHANGED <<users, sessions, now, settings>>

\* What a register call that passed both lookups answers when it reaches
\* create_user on the table us: the new user, or what the
\* global_exception_handler makes of the IntegrityError.
register_create_user_resp(us, call) ==
    IF user_insert_ok(us, call.username, call.email)
    THEN [Response("register") EXCEPT !.user = Len(us) + 1]
    ELSE InternalError("register")

\* register through create_user, by the call in slot c: db.commit() inserts
\* the row, or raises IntegrityError on a unique constraint, get_db rolls
\* back and the call answers 500.
RegisterCreateUserStep(c) ==
    /\ calls[c].op = "register"
    /\ calls[c].pc = "username_checked"
    /\ users' = IF user_insert_ok(users, calls[c].username, calls[c].email)
                THEN create_user(users, calls[c].username, calls[c].email,
                                 calls[c].password, calls[c].salt)
                ELSE users
    /\ calls' = Returned(c)
    /\ UNCHANGED <<sessions, now, settings>>

RegisterCreateUser == \E c \in Slots : RegisterCreateUserStep(c)

\* login up to db.add(session) in create_user_session: 401 when the
\* credentials fail, else last_login is committed, the two tokens are minted
\* and refresh_expires is computed, all at the clock value of this step.
LoginAddSession ==
    \E username \in Identifiers, password \in Passwords :
        LET user == authenticate_user(users, username, password)
        IN  /\ Len(calls) < MaxCalls
            /\ IF user = NoUser
               THEN UNCHANGED <<users, calls>>
               ELSE /\ users' = [users EXCEPT ![user].last_login = utcnow(now, 0)]
                    /\ calls' = Suspended(
                          [NoCall EXCEPT
                             !.op = "login",
                             !.pc = "session_added",
                             !.user_id = user,
                             !.access_token =
                                 create_access_token(users[user].username,
                                                     ACCESS_TOKEN_EXPIRE_MINUTES, now),
                             !.refresh_token =
                                 create_refresh_token(users[user].username,
                                                      REFRESH_TOKEN_EXPIRE_DAYS, now),
                             !.expires_at = now + REFRESH_TOKEN_EXPIRE_DAYS])
            /\ UNCHANGED <<sessions, now, settings>>

\* login through db.commit() in create_user_session: the INSERT fills the
\* column defaults at the clock value of this step, or raises IntegrityError
\* on a unique constraint and the call answers 500.
LoginCommitSession ==
    \E c \in Slots :
        /\ calls[c].op = "login"
        /\ calls[c].pc = "session_added"
        /\ Len(sessions) < MaxSessions
        /\ sessions' = IF session_insert_ok(sessions, calls[c].access_token,
                                            calls[c].refresh_token)
                       THEN Append(sessions,
                                   UserSession(calls[c].user_id, calls[c].access_token,
                                               calls[c].refresh_token,
                                               calls[c].expires_at, now))
                       ELSE sessions
        /\ calls' = Returned(c)
        /\ UNCHANGED <<users, now, settings>>

\* cleanup_expired_sessions up to the answer of its SELECT.
CleanupSelect ==
    /\ Len(calls) < MaxCalls
    /\ calls' = Suspended([NoCall EXCEPT !.op = "cleanup",
                                         !.pc = "selected",
                                         !.selected = expired_sessions(sessions, now)])
    /\ UNCHANGED <<users, sessions, now, settings>>

\* The count a cleanup_expired_sessions call returns: one for every row its
\* SELECT returned.
cleanup_count(call) == Cardinality(call.selected)

\* cleanup_expired_sessions through db.commit(), by the call in slot c.
CleanupCommitStep(c) ==
    /\ calls[c].op = "cleanup"
    /\ calls[c].pc = "selected"
    /\ sessions' = commit_inactive(sessions, calls[c].selected)
    /\ calls' = Returned(c)
    /\ UNCHANGED <<users, now, settings>>

CleanupCommit == \E c \in Slots : CleanupCommitStep(c)

\* invalidate_user_sessions up to the answer of its SELECT.
InvalidateSelect ==
    \E user_id \in UserIds(users) :
        /\ Len(calls) < MaxCalls
        /\ calls' = Suspended([NoCall EXCEPT
                                  !.op = "invalidate",
                                  !.pc = "selected",
                                  !.user_id = user_id,
                                  !.selected = active_sessions_of(sessions, user_id)])
        /\ UNCHANGED <<users, sessions, now, settings>>

\* invalidate_user_sessions through db.commit(), by the call in slot c.
InvalidateCommitStep(c) ==
    /\ calls[c].op = "invalidate"
    /\ calls[c].pc = "selected"
    /\ sessions' = commit_inactive(sessions, calls[c].selected)
    /\ calls' = Returned(c)
    /\ UNCHANGED <<users, now, settings>>

InvalidateCommit == \E c \in Slots : InvalidateCommitStep(c)

\* Concurrent register calls: they read and write the users table only.
\* update_session_activity up to session.last_used = datetime.utcnow(): the
\* call returns when get_user_session finds no active row, else it holds the
\* row and the new value until its commit.
TouchSelect ==
    \E token \in Presentable :
        LET session == get_user_session(sessions, token)
        IN  /\ Len(calls) < MaxCalls
            /\ calls' = IF session = NoSession
                        THEN calls
                        ELSE Suspended([NoCall EXCEPT !.op = "touch",
                                                      !.pc = "selected",
                                                      !.selected = {session},
                                                      !.last_used = now])
            /\ UNCHANGED <<users, sessions, now, settings>>

\* update_session_activity through db.commit(), by the call in slot c.
TouchCommitStep(c) ==
    /\ calls[c].op = "touch"
    /\ calls[c].pc = "selected"
    /\ sessions' = commit_last_used(sessions, calls[c].selected, calls[c].last_used)
    /\ calls' = Returned(c)
    /\ UNCHANGED <<users, now, settings>>

TouchCommit == \E c \in Slots : TouchCommitStep(c)

\* invalidate_session up to session.is_active = False: the call returns
\* False when get_user_session finds no active row.
InvalidateSessionSelect ==
    \E token \in Presentable :
        LET session == get_user_session(sessions, token)
        IN  /\ Len(calls) < MaxCalls
            /\ calls' = IF session = NoSession
                        THEN calls
                        ELSE Suspended([NoCall EXCEPT !.op = "invalidate_session",
                                                      !.pc = "selected",
                                                      !.selected = {session}])
            /\ UNCHANGED <<users, sessions, now, settings>>

\* invalidate_session through db.commit().
InvalidateSessionCommit ==
    \E c \in Slots :
        /\ calls[c].op = "invalidate_session"
        /\ calls[c].pc = "selected"
        /\ sessions' = commit_inactive(sessions, calls[c].selected)
        /\ calls' = Returned(c)
        /\ UNCHANGED <<users, now, settings>>

\* A caller's get_user_session up to the answer of its SELECT.
GetSessionSelect ==
    \E token \in Presentable :
        LET session == get_user_session(sessions, token)
        IN  /\ Len(calls) < MaxCalls
            /\ sessions' = get_user_session_leaves(sessions, token, now)
            /\ calls' = Suspended([NoCall EXCEPT
                                      !.op = "get_user_session",
                                      !.pc = "selected",
                                      !.selected = IF session = NoSession
                                                   THEN {}
                                                   ELSE {session}])
            /\ UNCHANGED <<users, now, settings>>

\* The caller has the row or None; get_db closes a session that has nothing
\* to flush.
GetSessionReturn ==
    \E c \in Slots :
        /\ calls[c].op = "get_user_session"
        /\ calls[c].pc = "selected"
        /\ calls' = Returned(c)
        /\ UNCHANGED <<users, sessions, now, settings>>

\* GET /me up to the answer of get_user_by_username in get_current_user: 401
\* at once when the token does not decode or has no sub.
WhoAmISelect ==
    \E token \in Presentable :
        /\ Len(calls) < MaxCalls
        /\ calls' = IF ~jwt_decode_ok(token, now) \/ token.sub = NoSub
                    THEN calls
                    ELSE Suspended([NoCall EXCEPT
                                      !.op = "whoAmI",
                                      !.pc = "selected",
                                      !.user_id = get_user_by_username(users, token.sub)])
        /\ UNCHANGED <<users, sessions, now, settings>>

\* GET /me answers 401 or the user; get_db closes a session that has nothing
\* to flush.
WhoAmIReturn ==
    \E c \in Slots :
        /\ calls[c].op = "whoAmI"
        /\ calls[c].pc = "selected"
        /\ calls' = Returned(c)
        /\ UNCHANGED <<users, sessions, now, settings>>

\* POST /auth/refresh up to the answer of get_user_by_username: 401 at once
\* when the token does not decode or has no sub.
RefreshSelect ==
    \E token \in Presentable :
        /\ Len(calls) < MaxCalls
        /\ calls' = IF ~jwt_decode_ok(token, now) \/ token.sub = NoSub
                    THEN calls
                    ELSE Suspended([NoCall EXCEPT
                                      !.op = "refresh",
                                      !.pc = "selected",
                                      !.user_id = get_user_by_username(users, token.sub)])
        /\ UNCHANGED <<users, sessions, now, settings>>

\* POST /auth/refresh answers 401 or mints the access token and returns;
\* get_db closes a session that has nothing to flush.
RefreshReturn ==
    \E c \in Slots :
        /\ calls[c].op = "refresh"
        /\ calls[c].pc = "selected"
        /\ calls' = Returned(c)
        /\ UNCHANGED <<users, sessions, now, settings>>

NextRegisterRace ==
    \/ RegisterCheckEmail
    \/ RegisterCheckUsername
    \/ RegisterCreateUser

SpecRegisterRace == Init /\ [][NextRegisterRace]_vars

\* Concurrent calls that read and write user_sessions, over users registered
\* one call at a time.
NextInterleaved ==
    \/ Tick
    \/ Register
    \/ LoginAddSession
    \/ LoginCommitSession
    \/ CleanupSelect
    \/ CleanupCommit
    \/ InvalidateSelect
    \/ InvalidateCommit

SpecInterleaved == Init /\ [][NextInterleaved]_vars

\* Refresh requests in flight while users log in and out and sessions are
\* reaped.
NextRefresh ==
    \/ Tick
    \/ Register
    \/ Login
    \/ Logout
    \/ CleanupExpiredSessions
    \/ RefreshSelect
    \/ RefreshReturn

SpecRefresh == Init /\ [][NextRefresh]_vars

\* Lookups in flight while accounts are created, users log in and sessions
\* run past their expiry with nobody clearing the flag.
NextReads ==
    \/ Tick
    \/ Register
    \/ Login
    \/ GetSessionSelect
    \/ GetSessionReturn
    \/ WhoAmISelect
    \/ WhoAmIReturn

SpecReads == Init /\ [][NextReads]_vars

\* Requests that touch a session overlapping requests and maintenance runs
\* that invalidate it; register and login run undivided.
NextTouchRace ==
    \/ Tick
    \/ Register
    \/ Login
    \/ TouchSelect
    \/ TouchCommit
    \/ InvalidateSelect
    \/ InvalidateCommit
    \/ InvalidateSessionSelect
    \/ InvalidateSessionCommit
    \/ CleanupSelect
    \/ CleanupCommit

SpecTouchRace == Init /\ [][NextTouchRace]_vars

(* ------------------------------------------------------------------ views *)
\* The session rows that hold the token as their access-token reference.
SessionsOfToken(ss, token) == {i \in SessionIds(ss) : ss[i].session_token = token}

\* The session rows owned by the user.
SessionsOfUser(ss, user_id) == {i \in SessionIds(ss) : ss[i].user_id = user_id}

\* A session counts as live when it is flagged active and not past expires_at.
Live(ss, i, t) == ss[i].is_active /\ ~(t > ss[i].expires_at)

\* Rows 1..Len(old) of new are the rows of old.
Extends(new, old) ==
    /\ Len(new) >= Len(old)
    /\ \A i \in SessionIds(old) : new[i] = old[i]

\* No two rows share an access-token reference or a refresh-token reference.
TokensUnique(ss) ==
    \A i, j \in SessionIds(ss) :
        i # j => /\ ss[i].session_token # ss[j].session_token
                 /\ ss[i].refresh_token # ss[j].refresh_token

\* The user an identifier names: by username first, then by e-mail.
Resolve(us, identifier) ==
    IF get_user_by_username(us, identifier) # NoUser
    THEN get_user_by_username(us, identifier)
    ELSE get_user_by_email(us, identifier)

(* ----------------------------------------------------------------- claims *)

\* C1: once logout(T) has completed for an access token T that a login
\* returned, whoAmI(T) fails with Unauthorized although T is still correctly
\* signed and unexpired. Stated on the state every successful logout step
\* leaves behind.
C1_LogoutRevokesAccessToken ==
    [][\A token \in Presentable :
          (/\ LogoutStep(token)
           /\ logout(users, sessions, token, now).resp.status = 200
           /\ SessionsOfToken(sessions, token) # {})
          => whoAmI(users', token, now').status = 401]_vars

\* C2: whoAmI(T) returns a user only if some session has access-token
\* reference T, is flagged active and has expires_at not before now.
C2_WhoAmINeedsLiveSession ==
    \A token \in Presentable :
        whoAmI(users, token, now).status = 200
        => \E i \in SessionsOfToken(sessions, token) : Live(sessions, i, now)

\* C3: refresh with a correctly signed, unexpired token of kind access fails
\* and mints nothing; refresh succeeds only for tokens of kind refresh.
C3_RefreshRejectsAccessToken ==
    \A token \in Presentable :
        LET r == refresh(users, token, now)
        IN  /\ token.type = "access" => (r.status = 401 /\ r.access_token = NoToken)
            /\ r.status = 200 => token.type = "refresh"

\* C4: whoAmI and logout with a correctly signed, unexpired token of kind
\* refresh fail with Unauthorized.
C4_AccessEndpointsRejectRefreshToken ==
    \A token \in Presentable :
        token.type = "refresh"
        => /\ whoAmI(users, token, now).status = 401
           /\ logout(users, sessions, token, now).resp.status = 401

\* C5: the active flag is monotonic: a session that is inactive stays in the
\* table and stays inactive across every step of every operation.
C5_ActiveFlagMonotonic ==
    [][\A i \in SessionIds(sessions) :
          ~sessions[i].is_active
          => (i \in SessionIds(sessions') /\ ~sessions'[i].is_active)]_vars

\* C5 witness: a session is inactive while a later session is active, and a
\* caller can still present the token of the inactive one.
C5_Witness ==
    \E i, j \in SessionIds(sessions) :
        /\ i < j
        /\ ~sessions[i].is_active
        /\ sessions[j].is_active
        /\ sessions[i].session_token \in Presentable

\* C6: after invalidate_user_sessions(u) no token of any session of u created
\* before the call resolves through get_user_session, and a token of an
\* inactive session never resolves in any later state; the session a later
\* successful login of u creates is the one get_user_session returns for its
\* access token.
C6_InvalidateAllThenLogin ==
    /\ \A u \in UserIds(users) :
          LET after == invalidate_user_sessions(sessions, u)
          IN  \A i \in SessionsOfUser(sessions, u) :
                 /\ get_user_session(after, sessions[i].session_token) = NoSession
                 /\ get_user_session(after, sessions[i].refresh_token) = NoSession
    /\ \A i \in SessionIds(sessions) :
          ~sessions[i].is_active
          => /\ get_user_session(sessions, sessions[i].session_token) = NoSession
             /\ get_user_session(sessions, sessions[i].refresh_token) = NoSession
    /\ \A username \in Identifiers, password \in Passwords :
          LET r == login(users, sessions, now, username, password)
          IN  r.resp.status = 200
              => /\ get_user_session(r.sessions, r.resp.access_token) = Len(r.sessions)
                 /\ r.sessions[Len(r.sessions)].user_id = r.resp.user
                 /\ Live(r.sessions, Len(r.sessions), now)

\* C6 witness: a user owns a session that was invalidated and a session that a
\* later login created, which is still active.
C6_Witness ==
    \E i, j \in SessionIds(sessions) :
        /\ i < j
        /\ sessions[i].user_id = sessions[j].user_id
        /\ ~sessions[i].is_active
        /\ sessions[j].is_active
        /\ sessions[j].created_at > sessions[i].created_at
        /\ get_user_session(sessions, sessions[j].session_token) = j

\* C7: after a successful logout(T) every session of the user T resolves to
\* that existed when logout started is inactive, not only the session whose
\* access-token reference is T.
C7_LogoutIsBroad ==
    \A token \in Presentable :
        LET r == logout(users, sessions, token, now)
        IN  r.resp.status = 200
            => \A i \in SessionsOfUser(sessions, r.resp.user) : ~r.sessions[i].is_active

\* C7 witness: a logout succeeds for a user who owns two active sessions, one
\* of them not the session of the presented token.
C7_Witness ==
    \E token \in Presentable :
        /\ logout(users, sessions, token, now).resp.status = 200
        /\ \E i, j \in SessionsOfUser(sessions, logout(users, sessions, token, now).resp.user) :
              /\ i # j
              /\ sessions[i].session_token = token
              /\ sessions[i].is_active
              /\ sessions[j].is_active

\* C8: in every reachable state, at every clock value, a login with correct
\* credentials succeeds, adds one session of that user, leaves the existing
\* sessions unchanged and keeps the token references unique.
C8_ConcurrentSessionsPermitted ==
    \A username \in Identifiers, password \in Passwords :
        authenticate_user(users, username, password) # NoUser
        => LET r == login(users, sessions, now, username, password)
           IN  /\ r.resp.status = 200
               /\ Len(r.sessions) = Len(sessions) + 1
               /\ Extends(r.sessions, sessions)
               /\ r.sessions[Len(r.sessions)].user_id =
                      authenticate_user(users, username, password)
               /\ TokensUnique(r.sessions)

\* C9: a successful login returns an access token of kind access and a refresh
\* token of kind refresh, both with the user's username as subject, and adds
\* exactly one session: owned by the user, holding the two tokens, active.
C9_LoginCreatesBoundSession ==
    \A username \in Identifiers, password \in Passwords :
        LET r == login(users, sessions, now, username, password)
            n == Len(r.sessions)
        IN  r.resp.status = 200
            => /\ r.resp.access_token.type = "access"
               /\ r.resp.refresh_token.type = "refresh"
               /\ r.resp.user \in UserIds(r.users)
               /\ r.resp.access_token.sub = r.users[r.resp.user].username
               /\ r.resp.refresh_token.sub = r.users[r.resp.user].username
               /\ n = Len(sessions) + 1
               /\ Extends(r.sessions, sessions)
               /\ r.sessions[n].user_id = r.resp.user
               /\ r.sessions[n].session_token = r.resp.access_token
               /\ r.sessions[n].refresh_token = r.resp.refresh_token
               /\ r.sessions[n].is_active

\* C9 witness: a login succeeds for a user who already owns a session.
C9_Witness ==
    \E username \in Identifiers, password \in Passwords :
        LET r == login(users, sessions, now, username, password)
        IN  /\ r.resp.status = 200
            /\ SessionsOfUser(sessions, r.resp.user) # {}

\* C10: a login whose identifier names no user and a login whose identifier
\* names a user but whose password is wrong give the caller the same response
\* and leave the same state behind.
C10_LoginFailuresIndistinguishable ==
    \A unknown, known \in Identifiers, p1, p2 \in Passwords :
        (/\ Resolve(users, unknown) = NoUser
         /\ Resolve(users, known) # NoUser
         /\ ~verify_password(p2, users[Resolve(users, known)].hashed_password))
        => LET r1 == login(users, sessions, now, unknown, p1)
               r2 == login(users, sessions, now, known, p2)
           IN  /\ r1.resp = r2.resp
               /\ r1.users = r2.users
               /\ r1.sessions = r2.sessions

\* C10 witness: some identifier names a user whose password a caller can get
\* wrong, some other identifier names none, and both logins are refused.
C10_Witness ==
    \E unknown, known \in Identifiers, p \in Passwords :
        /\ Resolve(users, unknown) = NoUser
        /\ Resolve(users, known) # NoUser
        /\ ~verify_password(p, users[Resolve(users, known)].hashed_password)
        /\ login(users, sessions, now, unknown, p).resp.status = 401
        /\ login(users, sessions, now, known, p).resp.status = 401
        /\ Len(sessions) >= 1

\* C11: login resolves the identifier as a username first and as an e-mail
\* address only when no user has that username. When the identifier is the
\* username of user a, the password is checked against a only, whoever holds
\* the identifier as e-mail address: a wrong password for a is refused with
\* 401 and a's password resolves to a. When no user has that username and
\* user b holds it as e-mail address, the password is checked against b.
C11_UsernameBeforeEmail ==
    \A identifier \in Identifiers, password \in Passwords :
        LET a == get_user_by_username(users, identifier)
            b == get_user_by_email(users, identifier)
            checked == IF a # NoUser THEN a ELSE b
            r == login(users, sessions, now, identifier, password)
        IN  /\ checked = NoUser => r.resp.status = 401
            /\ checked # NoUser =>
                  IF verify_password(password, users[checked].hashed_password)
                  THEN /\ authenticate_user(users, identifier, password) = checked
                       /\ r.resp.status # 401
                       /\ r.resp.user = checked
                  ELSE /\ authenticate_user(users, identifier, password) = NoUser
                       /\ r.resp.status = 401
                       /\ r.users = users
                       /\ r.sessions = sessions

\* C11 witness: one identifier is the username of a and the e-mail address of
\* another user b, the two have different passwords, b's password is refused
\* for that identifier and a's password logs a in.
C11_Witness ==
    \E a, b \in UserIds(users) :
        /\ a # b
        /\ users[a].username = users[b].email
        /\ users[a].hashed_password.plain # users[b].hashed_password.plain
        /\ login(users, sessions, now, users[a].username,
                 users[b].hashed_password.plain).resp.status = 401
        /\ login(users, sessions, now, users[a].username,
                 users[a].hashed_password.plain).resp.status = 200
        /\ login(users, sessions, now, users[a].username,
                 users[a].hashed_password.plain).resp.user = a

\* C12: a successful refresh(R) returns an access token of kind access minted
\* at the time of the call for the subject of R, together with exactly the
\* token R that was presented, and R can be presented again with the same
\* success; every refresh token a login returned is accepted by refresh in
\* every state whose clock is before the token's expiry.
C12_RefreshKeepsRefreshToken ==
    /\ \A token \in Presentable :
          LET r == refresh(users, token, now)
          IN  r.status = 200
              => /\ r.refresh_token = token
                 /\ r.access_token.type = "access"
                 /\ r.access_token.sub = token.sub
                 /\ r.access_token.exp = now + ACCESS_TOKEN_EXPIRE_MINUTES
                 /\ r.access_token.key = SECRET_KEY
                 /\ whoAmI(users, r.access_token, now).status = 200
                 /\ refresh(users, r.refresh_token, now).status = 200
    /\ \A i \in SessionIds(sessions) :
          now < sessions[i].refresh_token.exp
          => refresh(users, sessions[i].refresh_token, now).status = 200

\* C12 witness: a refresh token minted at an earlier clock value is refreshed
\* after the access token it came with has expired, and the access token
\* handed out is a different one.
C12_Witness ==
    \E i \in SessionIds(sessions) :
        LET r == refresh(users, sessions[i].refresh_token, now)
        IN  /\ sessions[i].created_at < now
            /\ r.status = 200
            /\ r.refresh_token = sessions[i].refresh_token
            /\ r.access_token # sessions[i].session_token
            /\ whoAmI(users, sessions[i].session_token, now).status = 401

\* C13: a token the server minted with expiry exp is accepted by verification
\* (whoAmI for a token of kind access, refresh for a token of kind refresh)
\* exactly while now < exp, and is rejected at every clock value now >= exp,
\* now = exp included.
C13_ExpiryBoundary ==
    \A token \in Presentable :
        token.key = SECRET_KEY
        => /\ token.type = "access"
              => (whoAmI(users, token, now).status = 200 <=> now < token.exp)
           /\ token.type = "refresh"
              => (refresh(users, token, now).status = 200 <=> now < token.exp)

\* C14: register fails with a duplicate-credential error (400) whenever the
\* username or the e-mail address is already held by a user, names the one
\* that conflicts when only one does, and leaves the users unchanged when it
\* fails; when neither is held it adds exactly the user asked for.
C14_RegisterDuplicate ==
    \A username \in Usernames, email \in Emails,
       password \in Passwords, salt \in Salts :
        LET r == register(users, username, email, password, salt)
            username_held == \E i \in UserIds(users) : users[i].username = username
            email_held    == \E i \in UserIds(users) : users[i].email = email
        IN  /\ (username_held \/ email_held)
                => (r.resp.status = 400 /\ r.users = users /\ r.resp.user = NoUser)
            /\ (username_held /\ ~email_held)
                => r.resp.detail = "Username already taken"
            /\ (email_held /\ ~username_held)
                => r.resp.detail = "Email already registered"
            /\ (~username_held /\ ~email_held)
                => /\ r.resp.status = 200
                   /\ Len(r.users) = Len(users) + 1
                   /\ \A i \in UserIds(users) : r.users[i] = users[i]
                   /\ r.users[Len(r.users)].username = username
                   /\ r.users[Len(r.users)].email = email

\* C14 witness: with a user registered, one registration repeats only the
\* username, another only the e-mail address, and a third neither.
C14_Witness ==
    /\ users # <<>>
    /\ \E username \in Usernames, email \in Emails :
          /\ get_user_by_username(users, username) # NoUser
          /\ get_user_by_email(users, email) = NoUser
          /\ register(users, username, email, "Secretpw1", "s1").resp.detail
                 = "Username already taken"
    /\ \E username \in Usernames, email \in Emails :
          /\ get_user_by_username(users, username) = NoUser
          /\ get_user_by_email(users, email) # NoUser
          /\ register(users, username, email, "Secretpw1", "s1").resp.detail
                 = "Email already registered"
    /\ \E username \in Usernames, email \in Emails :
          register(users, username, email, "Secretpw1", "s1").resp.status = 200

\* C15: in every reachable state, under any interleaving of the steps of
\* concurrent register calls, no two user rows share a username and no two
\* user rows share an e-mail address.
C15_UsersUnique ==
    \A i, j \in UserIds(users) :
        i # j => /\ users[i].username # users[j].username
                 /\ users[i].email # users[j].email

\* C15 witness: a register call has passed both lookups and is about to
\* insert, while another call has meanwhile inserted a user with the same
\* username and a different e-mail address.
C15_Witness ==
    \E c \in Slots, i \in UserIds(users) :
        /\ calls[c].op = "register"
        /\ calls[c].pc = "username_checked"
        /\ users[i].username = calls[c].username
        /\ users[i].email # calls[c].email

\* C16: cleanup_expired_sessions is idempotent: run a second time at the same
\* clock value right after a first run, it returns 0 and changes no session.
C16_CleanupIdempotent ==
    LET first == cleanup_expired_sessions(sessions, now)
    IN  /\ cleanup_expired_sessions_count(first, now) = 0
        /\ cleanup_expired_sessions(first, now) = first

\* C16 witness: the first of the two runs has a session to flip.
C16_Witness ==
    /\ cleanup_expired_sessions_count(sessions, now) >= 1
    /\ cleanup_expired_sessions(sessions, now) # sessions

\* C17: cleanup_expired_sessions at clock value now flips to inactive exactly
\* the sessions that are active and have expires_at < now, which are the
\* active sessions is_expired holds for; a session with expires_at = now is
\* not flipped; it returns the number of sessions it flipped and leaves every
\* other session and every other field as it was.
C17_CleanupExact ==
    LET after   == cleanup_expired_sessions(sessions, now)
        flipped == {i \in SessionIds(sessions) :
                       sessions[i].is_active /\ ~after[i].is_active}
    IN  /\ Len(after) = Len(sessions)
        /\ \A i \in SessionIds(sessions) :
              IF sessions[i].is_active /\ sessions[i].expires_at < now
              THEN after[i] = [sessions[i] EXCEPT !.is_active = FALSE]
              ELSE after[i] = sessions[i]
        /\ \A i \in SessionIds(sessions) :
              (sessions[i].is_active /\ sessions[i].expires_at = now)
              => after[i].is_active
        /\ flipped = {i \in SessionIds(sessions) :
                          sessions[i].is_active /\ is_expired(sessions, i, now)}
        /\ cleanup_expired_sessions_count(sessions, now) = Cardinality(flipped)

\* C17 witness: one active session is past its expiry and another active
\* session expires at this very clock value.
C17_Witness ==
    \E i, j \in SessionIds(sessions) :
        /\ sessions[i].is_active
        /\ sessions[i].expires_at < now
        /\ sessions[j].is_active
        /\ sessions[j].expires_at = now
        /\ cleanup_expired_sessions_count(sessions, now) = 1

\* C18: double counting is impossible: under any interleaving of concurrent
\* cleanup_expired_sessions and invalidate_user_sessions calls, the count a
\* cleanup call returns is the number of sessions whose active flag its own
\* commit changes from true to false, so no flip is counted by two calls and
\* no call counts a flip another call made.
C18_NoDoubleCounting ==
    [][\A c \in Slots :
          CleanupCommitStep(c)
          => cleanup_count(calls[c]) =
                 Cardinality({i \in SessionIds(sessions) :
                                 sessions[i].is_active /\ ~sessions'[i].is_active})]_vars

\* C19: get_user_session(T) returns a session iff some session has
\* session_token T, is flagged active and has now <= expires_at, and the
\* session it returns is such a session: one that is flagged active with
\* now > expires_at is never returned.
C19_NoExpiredSessionReturned ==
    \A token \in Presentable :
        LET session == get_user_session(sessions, token)
        IN  /\ session # NoSession
               <=> \E i \in SessionsOfToken(sessions, token) : Live(sessions, i, now)
            /\ session # NoSession
               => /\ sessions[session].session_token = token
                  /\ sessions[session].is_active
                  /\ ~is_expired(sessions, session, now)

\* C20: every session create_user_session adds is active and has expires_at
\* equal to its created_at plus the refresh TTL.
C20_ExpiresAtFromCreatedAt ==
    [][\A i \in SessionIds(sessions') \ SessionIds(sessions) :
          /\ sessions'[i].is_active
          /\ sessions'[i].expires_at
                = sessions'[i].created_at + REFRESH_TOKEN_EXPIRE_DAYS]_vars

\* C21: invalidate_user_sessions(user_id) returns the number of sessions it
\* flipped from active to inactive, 0 when the user has no active session.
C21_InvalidateAllReturnsCount ==
    \A user_id \in UserIds(users) :
        LET after == invalidate_user_sessions(sessions, user_id)
        IN  invalidate_user_sessions_returns(sessions, user_id)
              = Cardinality({i \in SessionIds(sessions) :
                                sessions[i].is_active /\ ~after[i].is_active})

\* C22: the process never serves login, refresh or whoAmI requests while
\* SECRET_KEY is absent from the environment or empty.
C22_NoServingWithoutKey ==
    Serving => /\ settings.environ # <<>>
               /\ settings.SECRET_KEY # ""

\* C23: verify_password(p, get_password_hash(p)) is true for every password
\* p, and no password q that differs from p verifies against the hash of p:
\* a stored hash is verified by one password only.
C23_HashVerifyRoundTrip ==
    /\ \A p \in PasswordInputs, salt \in SaltInputs :
           verify_password(p, get_password_hash(p, salt))
    /\ \A user \in UserIds(users) :
           \A p \in PasswordInputs, q \in PasswordInputs :
               /\ verify_password(p, users[user].hashed_password)
               /\ verify_password(q, users[user].hashed_password)
               => p = q

\* C25: in the state right after invalidate_user_sessions(u) commits, no
\* session of u whose creation was committed before that commit is active.
C25_InvalidateAllAtomic ==
    [][\A c \in Slots :
          InvalidateCommitStep(c)
          => \A i \in SessionIds(sessions) :
                 sessions[i].user_id = calls[c].user_id
                 => ~sessions'[i].is_active]_vars

\* C26: of two register calls with the same username or email that both
\* passed the lookups, the one that does not create the user fails with the
\* duplicate-credential error (400), not with an unhandled store error.
C26_RaceLoserGetsDuplicateError ==
    [][\A c \in Slots :
          RegisterCreateUserStep(c) /\ users' = users
          => LET resp == register_create_user_resp(users, calls[c])
             IN  /\ resp.status = 400
                 /\ resp.detail \in {"Email already registered",
                                     "Username already taken"}]_vars

\* C24: under any interleaving of update_session_activity with
\* invalidate_user_sessions, invalidate_session and cleanup_expired_sessions,
\* a session that is inactive stays inactive; the commit of a touch that read
\* the session while it was active does not write the flag back to true.
C24_TouchKeepsInactive ==
    [][/\ \A i \in SessionIds(sessions) :
              sessions[i].is_active \/ ~sessions'[i].is_active
       /\ \A c \in Slots :
              TouchCommitStep(c)
              => \A i \in calls[c].selected :
                     sessions'[i].is_active = sessions[i].is_active]_vars

\* A touch holds a session it read while active, and an invalidation of that
\* session has committed since: the commit of the touch comes late.
C24_Witness ==
    \E c \in Slots :
        /\ calls[c].op = "touch"
        /\ calls[c].pc = "selected"
        /\ \E i \in calls[c].selected : ~sessions[i].is_active

\* C27: with the clock advancing and cleanup_expired_sessions invoked again
\* and again, no session stays active forever: every session whose
\* expires_at the clock passes is eventually inactive.
C27_EverySessionReaped ==
    \A i \in 1 .. MaxSessions :
        []((IF i \in SessionIds(sessions)
            THEN sessions[i].expires_at < MaxTime
            ELSE FALSE)
           => <>(IF i \in SessionIds(sessions)
                 THEN ~sessions[i].is_active
                 ELSE FALSE))

\* A session has been touched after its creation, has expired since and is
\* inactive.
C27_Witness ==
    \E i \in SessionIds(sessions) :
        /\ sessions[i].last_used > sessions[i].created_at
        /\ sessions[i].expires_at < now
        /\ ~sessions[i].is_active

\* C28: no operation changes the expires_at, the owner, the access token or
\* the refresh token of an existing session.
C28_SessionIdentityFixed ==
    [][\A i \in SessionIds(sessions) :
          /\ i \in SessionIds(sessions')
          /\ sessions'[i].expires_at = sessions[i].expires_at
          /\ sessions'[i].user_id = sessions[i].user_id
          /\ sessions'[i].session_token = sessions[i].session_token
          /\ sessions'[i].refresh_token = sessions[i].refresh_token]_vars

\* A session has been touched and then invalidated, and its owner has logged
\* in again since it was created.
C28_Witness ==
    \E i, j \in SessionIds(sessions) :
        /\ i < j
        /\ sessions[i].user_id = sessions[j].user_id
        /\ sessions[i].last_used > sessions[i].created_at
        /\ ~sessions[i].is_active

\* C29: get_user_session and GET /me leave every session record as it is: no
\* step of either changes user_sessions, and a lookup that hits a session
\* past its expires_at with the flag still set does not clear the flag.
C29_ReadsChangeNothing ==
    [][(\/ /\ Len(calls') = Len(calls) + 1
           /\ calls'[Len(calls')].op \in {"get_user_session", "whoAmI"}
        \/ \E c \in Slots :
              /\ calls[c].op \in {"get_user_session", "whoAmI"}
              /\ calls' = Returned(c))
       => sessions' = sessions]_vars

\* A lookup has returned a session that is past its expires_at, and the
\* session is still flagged active.
C29_Witness ==
    \E c \in Slots :
        /\ calls[c].op = "get_user_session"
        /\ \E i \in calls[c].selected :
               /\ sessions[i].is_active
               /\ sessions[i].expires_at < now

\* C30: update_session_activity(T) sets last_used to now on the session that
\* is flagged active, not past its expires_at and has session_token T, and
\* changes nothing else; when there is no such session (unknown token,
\* invalidated session, session past its expires_at) it changes nothing.
C30_TouchOnlyLiveSession ==
    \A token \in Presentable :
        LET after == update_session_activity(sessions, token, now)
            live  == {i \in SessionsOfToken(sessions, token) : Live(sessions, i, now)}
        IN  IF live # {}
            THEN \E i \in live : after = [sessions EXCEPT ![i].last_used = now]
            ELSE after = sessions

\* C31: get_user_session resolves a session by either token reference: for
\* an active session not past its expires_at, the lookup with its access
\* token and the lookup with its refresh token both return that session.
C31_LookupByEitherToken ==
    \A i \in SessionIds(sessions) :
        Live(sessions, i, now)
        => /\ get_user_session(sessions, sessions[i].session_token) = i
           /\ get_user_session(sessions, sessions[i].refresh_token) = i

\* C32: no operation changes the id of an existing user, and
\* update_user_profile changes neither its username, its email nor its
\* password hash, whatever the field map.
C32_UserIdentityFixed ==
    [][/\ \A i \in UserIds(users) :
              i \in UserIds(users') /\ users'[i].id = users[i].id
       /\ \A user_id \in UserIdInputs, profile_data \in ProfileData :
              UpdateUserProfileStep(user_id, profile_data)
              => \A i \in UserIds(users) :
                     /\ users'[i].username = users[i].username
                     /\ users'[i].email = users[i].email
                     /\ users'[i].hashed_password = users[i].hashed_password]_vars

\* C33: refresh does not consult the session registry. refresh(R) succeeds
\* exactly when R is signed with the server's key, not expired and names an
\* existing user, whatever the state of that user's sessions, and no step of
\* a refresh changes a session or a user record.
C33_RefreshIgnoresRegistry ==
    /\ [](\A token \in Presentable :
             refresh(users, token, now).status = 200
             <=> /\ jwt_decode_ok(token, now)
                 /\ token.sub # NoSub
                 /\ get_user_by_username(users, token.sub) # NoUser)
    /\ [][(\/ /\ Len(calls') = Len(calls) + 1
               /\ calls'[Len(calls')].op = "refresh"
            \/ \E c \in Slots :
                  /\ calls[c].op = "refresh"
                  /\ calls' = Returned(c))
           => /\ sessions' = sessions
              /\ users' = users]_vars

\* A refresh is in flight with the refresh token of a session, every session
\* of the token's user is inactive, and the refresh succeeds.
C33_Witness ==
    \E c \in Slots, i \in SessionIds(sessions) :
        /\ calls[c].op = "refresh"
        /\ calls[c].user_id = sessions[i].user_id
        /\ \A j \in SessionsOfUser(sessions, sessions[i].user_id) :
               ~sessions[j].is_active
        /\ refresh(users, sessions[i].refresh_token, now).status = 200

\* C34: a login that does not return a token pair (unknown identifier, wrong
\* password or a failure while persisting the session) leaves every user
\* record, last_login included, and the session table as they were.
C34_LoginAllOrNothing ==
    \A username \in Identifiers, password \in Passwords, usec \in Microseconds :
        LET r == login_at(users, sessions, now, usec, username, password)
        IN  (/\ \A i \in UserIds(users) : users[i].last_login <= utcnow(now, usec)
             /\ r.resp.status # 200)
            => /\ r.users = users
               /\ r.sessions = sessions

\* The rows of ss2 are the rows of ss, except that rows of user_id may have
\* another is_active.
OnlyFlagsOf(ss2, ss, user_id) ==
    /\ Len(ss2) = Len(ss)
    /\ \A i \in SessionIds(ss) :
          IF ss[i].user_id = user_id
          THEN [ss2[i] EXCEPT !.is_active = ss[i].is_active] = ss[i]
          ELSE ss2[i] = ss[i]

\* C35: invalidate_user_sessions(u) and a logout by user u leave every session
\* of any other user unchanged, and change no field other than is_active of
\* the sessions of u.
C35_InvalidateAllOnlyOwnFlags ==
    /\ \A user_id \in UserIds(users) :
          OnlyFlagsOf(invalidate_user_sessions(sessions, user_id), sessions, user_id)
    /\ \A token \in Presentable :
          LET current_user == get_current_user(users, token, now)
              r == logout(users, sessions, token, now)
          IN  IF current_user = NoUser
              THEN r.sessions = sessions
              ELSE OnlyFlagsOf(r.sessions, sessions, current_user)

\* The session of one user is inactive before it expires, so a logout has
\* run, while the session of another user is still active.
C35_Witness ==
    \E i, j \in SessionIds(sessions) :
        /\ sessions[i].user_id # sessions[j].user_id
        /\ ~sessions[i].is_active
        /\ now <= sessions[i].expires_at
        /\ sessions[j].is_active

\* C36: change_user_password returns False and leaves the stored hash alone
\* when no user has the id or the current password does not verify; when it
\* returns True the user authenticates with the new password, no longer
\* authenticates with the old one if the two differ, and no session changes.
C36_PasswordChange ==
    \A user_id \in UserIdInputs, current_password \in PasswordInputs,
       new_password \in PasswordInputs, salt \in SaltInputs :
        LET user == get_user_by_id(users, user_id)
            r == change_user_password(users, sessions, user_id,
                                      current_password, new_password, salt)
        IN  /\ r.sessions = sessions
            /\ IF user = NoUser
                  \/ ~verify_password(current_password, users[user].hashed_password)
               THEN ~r.returns /\ r.users = users
               ELSE /\ r.returns
                    /\ authenticate_user(r.users, users[user].username,
                                         new_password) = user
                    /\ current_password # new_password
                         => authenticate_user(r.users, users[user].username,
                                              current_password) = NoUser

\* C37: invalidate_session(T) clears is_active of the session whose
\* session_token is T and changes nothing else; it returns True exactly when
\* that session was active before the call; a second call with T returns
\* False and changes nothing.
C37_InvalidateSessionExact ==
    \A token \in Presentable :
        LET ss2 == invalidate_session(sessions, token)
        IN  /\ Len(ss2) = Len(sessions)
            /\ \A i \in SessionIds(sessions) :
                  IF sessions[i].session_token = token
                  THEN ss2[i] = [sessions[i] EXCEPT !.is_active = FALSE]
                  ELSE ss2[i] = sessions[i]
            /\ invalidate_session_returns(sessions, token)
                  = (\E i \in SessionIds(sessions) :
                        sessions[i].session_token = token /\ sessions[i].is_active)
            /\ ~invalidate_session_returns(ss2, token)
            /\ invalidate_session(ss2, token) = ss2

\* Of two sessions of one user the later one was invalidated before it
\* expired and the earlier one is still active.
C37_Witness ==
    \E i, j \in SessionIds(sessions) :
        /\ j < i
        /\ sessions[i].user_id = sessions[j].user_id
        /\ ~sessions[i].is_active
        /\ now <= sessions[i].expires_at
        /\ sessions[j].is_active

\* C38: session records are never removed: across login, refresh, logout,
\* update_session_activity, invalidate_session and cleanup_expired_sessions
\* the table only grows and every row keeps its id and its creation time, so
\* invalidated and reaped sessions stay in the table.
C38_SessionsNeverRemoved ==
    [][/\ Len(sessions') >= Len(sessions)
       /\ \A i \in SessionIds(sessions) :
             /\ i \in SessionIds(sessions')
             /\ sessions'[i].created_at = sessions[i].created_at]_vars

\* One session is inactive past its expires_at and another was invalidated
\* before it expired; both are rows of the table.
C38_Witness ==
    \E i, j \in SessionIds(sessions) :
        /\ ~sessions[i].is_active
        /\ sessions[i].expires_at < now
        /\ ~sessions[j].is_active
        /\ now <= sessions[j].expires_at

====
